---- MODULE Spec2Model ----
(***************************************************************************)
(* Model of the question-segmentation core of manus-exam.                  *)
(*                                                                         *)
(*  - the line assembler of src/advanced_pdf_extractor_v2.py               *)
(*    (AdvancedPDFExtractor: _process_block, _add_part,                    *)
(*    _finalize_current_question, extract_questions, _save_questions);     *)
(*  - the numbering pass and the directory run of src/patched_extractor.py *)
(*    (AdvancedPDFExtractor._fix_question_numbering,                       *)
(*    extract_from_directory);                                             *)
(*  - the continuation merge of src/final_extractor_fixed.py               *)
(*    (AdvancedQuestionExtractor._handle_multi_page_questions).            *)
(*                                                                         *)
(* Text is modelled as a sequence of whitespace-separated tokens.  A token *)
(* is a record [k, s, d]: k is its lexical kind, s its letters, d its      *)
(* digits.  The regular expressions of the source are modelled by what     *)
(* they match on such token sequences.                                     *)
(***************************************************************************)
EXTENDS Integers, Sequences, FiniteSets, TLC

VARIABLES
    questions,                  \* self.questions
    current_question_number,    \* self.current_question_number (NoQuestion = None)
    current_question_text,      \* self.current_question_text
    current_marks,              \* self.current_marks (None = -1)
    current_parts,              \* self.current_parts
    current_question_diagrams,  \* self.current_question_diagrams
    pending_diagrams,           \* self._pending_diagrams (present = hasattr)
    debug_output,               \* self.debug_output
    error,                      \* exception that left extract_questions, or "none"
    valid_questions,            \* the list _save_questions dumps to JSON
    page_num,                   \* pages loaded so far by extract_questions
    pc,                         \* position in extract_questions / in the harness
    hist,                       \* the input consumed so far (pages and blocks)
    num_in,                     \* argument of _fix_question_numbering
    num_out,                    \* its return value
    num_twice,                  \* the return value of a second application
    marks_text,                 \* argument of _extract_marks
    marks_result,               \* its return value (None = -1)
    dir_files,                  \* os.listdir(input_dir), in listing order
    dir_index,                  \* files the loop of extract_from_directory has passed
    dir_questions,              \* self.questions of patched_extractor, by subject
    dir_saved,                  \* the lists dumped to <subject>_questions.json
    mp_input,                   \* the list passed to _handle_multi_page_questions
    mp_questions,               \* that list, whose records the loop changes in place
    mp_i,                       \* the loop index i (0-based, as in the source)
    mp_merged                   \* merged_questions

vars == <<questions, current_question_number, current_question_text,
          current_marks, current_parts, current_question_diagrams,
          pending_diagrams, debug_output, error, valid_questions, page_num,
          pc, hist, num_in, num_out, num_twice, marks_text, marks_result,
          dir_files, dir_index, dir_questions, dir_saved,
          mp_input, mp_questions, mp_i, mp_merged>>

asmVars == <<questions, current_question_number, current_question_text,
             current_marks, current_parts, current_question_diagrams,
             pending_diagrams, debug_output, error, valid_questions, page_num,
             hist>>

numVars == <<num_in, num_out, num_twice>>

fnVars == <<marks_text, marks_result>>

dirVars == <<dir_files, dir_index, dir_questions, dir_saved>>

mpVars == <<mp_input, mp_questions, mp_i, mp_merged>>

----------------------------------------------------------------------------
(* Bounds *)

MaxEvents == 5

MaxCalls == 2

MaxRecs == 3

MaxLen == 4

MaxDocs == 3

MaxQs == 3

----------------------------------------------------------------------------
(* Values *)

None == -1

NoQuestion == <<>>

Last(s) == s[Len(s)]

Front(s) == SubSeq(s, 1, Len(s) - 1)

ND(d) == [k |-> "numdot", s |-> "", d |-> d]

P(s) == [k |-> "paren", s |-> s, d |-> <<>>]

W(s) == [k |-> "word", s |-> s, d |-> <<>>]

N(d) == [k |-> "num", s |-> "", d |-> d]

Noise == [k |-> "noise", s |-> "", d |-> <<>>]

RECURSIVE ParseInt(_)
ParseInt(d) == IF d = <<>> THEN 0 ELSE ParseInt(Front(d)) * 10 + Last(d)

RECURSIVE FormatInt(_)
FormatInt(n) == IF n < 10 THEN <<n>> ELSE FormatInt(n \div 10) \o <<n % 10>>

Ord(c) ==
    CASE c = "a" -> 97 [] c = "b" -> 98 [] c = "c" -> 99 [] OTHER -> 0

IsChar(c) == c \in {"a", "b", "c"}

Dbg(msg, label, qnum) == [msg |-> msg, label |-> label, qnum |-> qnum]

----------------------------------------------------------------------------
(* The lines of the modelled documents *)

L_7find == <<ND(<<7>>), W("Find"), W("the"), W("area")>>

L_7cont == <<ND(<<7>>), P("continued"), W("of"), W("the"), W("shape.")>>

L_7mark == <<ND(<<7>>), P("continued")>>

L_1eval == <<ND(<<1>>), W("Evaluate"), N(<<2>>), W("marks")>>

L_5expr == <<ND(<<5>>), W("Express"), W("x"), N(<<3>>)>>

L_a == <<P("a"), W("continued"), W("text")>>

L_b1 == <<P("b"), W("second"), W("part"), N(<<1>>)>>

L_plain == <<W("diagram"), N(<<4>>)>>

Lines == {L_7find, L_7cont, L_7mark, L_1eval, L_5expr, L_a, L_b1, L_plain}

Blocks == {<<l>> : l \in Lines}

----------------------------------------------------------------------------
(* Pure helpers of AdvancedPDFExtractor (v2) *)

\* _clean_text: the noise patterns are removed, the other text is kept in order
clean_text(text) == SelectSeq(text, LAMBDA t : t.k # "noise")

\* re.search(r"(?:marks?[:\s]*|\s)\[?(\d+)\]?\s*$"): the text ends in a number
\* that is preceded by whitespace (so it is not the first token).
marks_at_end(text) == Len(text) >= 2 /\ Last(text).k = "num"

extract_marks_default_one(text) ==
    IF marks_at_end(text) THEN ParseInt(Last(text).d) ELSE 1

extract_marks(text) ==
    IF marks_at_end(text) THEN ParseInt(Last(text).d) ELSE None

IsMarksWord(t) == t.k = "word" /\ t.s \in {"mark", "marks"}

\* re.sub of the same pattern by "": the leftmost match is removed, which
\* starts at a preceding word "marks" when there is one.
strip_marks(text) ==
    IF marks_at_end(text)
    THEN IF IsMarksWord(text[Len(text) - 1])
         THEN SubSeq(text, 1, Len(text) - 2)
         ELSE Front(text)
    ELSE text

\* re.match(r"^(\d+)\.\s+(.*)")
main_q_match(line) == Len(line) >= 2 /\ line[1].k = "numdot"

\* re.match(r"^\((\w+)\)\s+(.*)")
sub_q_match(line) == Len(line) >= 2 /\ line[1].k = "paren"

\* re.match(r"^(\d+)\.\s+\((\w+)\)\s+(.*)")
continued_sub_q_match(line) ==
    Len(line) >= 3 /\ line[1].k = "numdot" /\ line[2].k = "paren"

\* re.match(r"^(\d+)\.\s+\(continued\)(.*)", re.IGNORECASE)
continued_main_q_match(line) ==
    Len(line) >= 2 /\ line[1].k = "numdot" /\ line[2] = P("continued")

----------------------------------------------------------------------------
(* The extractor object: the fields the assembler methods read and write *)

Obj ==
    [questions |-> questions,
     current_question_number |-> current_question_number,
     current_question_text |-> current_question_text,
     current_marks |-> current_marks,
     current_parts |-> current_parts,
     current_question_diagrams |-> current_question_diagrams,
     debug_output |-> debug_output,
     error |-> error]

SetObj(o) ==
    /\ questions' = o.questions
    /\ current_question_number' = o.current_question_number
    /\ current_question_text' = o.current_question_text
    /\ current_marks' = o.current_marks
    /\ current_parts' = o.current_parts
    /\ current_question_diagrams' = o.current_question_diagrams
    /\ debug_output' = o.debug_output
    /\ error' = o.error

Log(o, msg, label, qnum) ==
    [o EXCEPT !.debug_output = Append(@, Dbg(msg, label, qnum))]

contains_diagram(text) == \E i \in 1..Len(text) : text[i].s = "diagram"

add_part_to_finalized(o, part_label, text, marks) ==
    LET n == Len(o.questions)
        part == [part_label |-> part_label, text |-> clean_text(text),
                 marks |-> marks]
    IN  IF o.current_question_number = NoQuestion
        THEN Log(o, "Warning: Trying to add part without a current question",
                 part_label, NoQuestion)
        ELSE IF o.questions # <<>>
        THEN [o EXCEPT !.questions[n].parts = Append(@, part)]
        ELSE [o EXCEPT !.current_parts = Append(@, part)]

\* _add_part
add_part(o, part_label, text, marks) ==
    IF o.current_question_number = NoQuestion
    THEN Log(o, "Warning: Trying to add part without a current question",
             part_label, NoQuestion)
    ELSE [o EXCEPT !.current_parts =
              Append(@, [part_label |-> part_label,
                         text |-> clean_text(text),
                         marks |-> marks])]

\* the body of the loop over self.current_parts in _finalize_current_question
final_part(part) ==
    LET labelled == Len(part.text) > 0 /\ part.text[1] = P(part.part_label)
        part_text == IF labelled THEN Tail(part.text) ELSE part.text
        part_marks == IF part.marks = None THEN extract_marks(part_text)
                      ELSE part.marks
    IN  [part_label |-> part.part_label,
         text |-> strip_marks(part_text),
         marks |-> part_marks]

RECURSIVE skipped_parts(_, _)
skipped_parts(parts, qnum) ==
    IF parts = <<>> THEN <<>>
    ELSE (IF final_part(Head(parts)).text = <<>>
          THEN <<Dbg("Skipping empty part", Head(parts).part_label, qnum)>>
          ELSE <<>>) \o skipped_parts(Tail(parts), qnum)

\* the record _finalize_current_question builds from the accumulators
question_data(o) ==
    LET all_parts == [i \in 1..Len(o.current_parts) |->
                          final_part(o.current_parts[i])]
        final_parts == SelectSeq(all_parts, LAMBDA p : p.text # <<>>)
        text0 == o.current_question_text
        final_marks == IF o.current_marks = None THEN extract_marks(text0)
                       ELSE o.current_marks
        text1 == strip_marks(text0)
        final_text == IF Len(text1) > 0 /\ text1[1] = ND(o.current_question_number)
                      THEN Tail(text1) ELSE text1
    IN  [question_number |-> o.current_question_number,
         text |-> final_text,
         marks |-> final_marks,
         parts |-> final_parts,
         has_diagram |-> contains_diagram(final_text)
                         \/ \E i \in 1..Len(final_parts) :
                                contains_diagram(final_parts[i].text),
         diagrams |-> o.current_question_diagrams]

finalize_current_question_keep_empty(o) ==
    LET qd == question_data(o)
        o1 == IF o.current_question_number = NoQuestion THEN o
              ELSE [o EXCEPT
                      !.questions = Append(@, qd),
                      !.debug_output = @ \o
                          <<Dbg("Finalized question", "",
                                o.current_question_number)>>]
    IN  [o1 EXCEPT !.current_question_number = NoQuestion,
                   !.current_question_text = <<>>,
                   !.current_marks = None,
                   !.current_parts = <<>>,
                   !.current_question_diagrams = <<>>]

finalize_current_question_keep_diagrams(o) ==
    LET qd == question_data(o)
        skips == skipped_parts(o.current_parts, o.current_question_number)
        kept == qd.text # <<>> \/ qd.parts # <<>>
        o1 == IF o.current_question_number = NoQuestion THEN o
              ELSE [o EXCEPT
                      !.questions = IF kept THEN Append(@, qd) ELSE @,
                      !.debug_output = @ \o skips \o
                          <<Dbg(IF kept THEN "Finalized question"
                                ELSE "Skipping question due to empty content",
                                "", o.current_question_number)>>]
    IN  [o1 EXCEPT !.current_question_number = NoQuestion,
                   !.current_question_text = <<>>,
                   !.current_marks = None,
                   !.current_parts = <<>>]

\* _finalize_current_question
finalize_current_question(o) ==
    LET qd == question_data(o)
        skips == skipped_parts(o.current_parts, o.current_question_number)
        kept == qd.text # <<>> \/ qd.parts # <<>>
        o1 == IF o.current_question_number = NoQuestion THEN o
              ELSE [o EXCEPT
                      !.questions = IF kept THEN Append(@, qd) ELSE @,
                      !.debug_output = @ \o skips \o
                          <<Dbg(IF kept THEN "Finalized question"
                                ELSE "Skipping question due to empty content",
                                "", o.current_question_number)>>]
    IN  [o1 EXCEPT !.current_question_number = NoQuestion,
                   !.current_question_text = <<>>,
                   !.current_marks = None,
                   !.current_parts = <<>>,
                   !.current_question_diagrams = <<>>]

----------------------------------------------------------------------------
(* _process_block: one branch per arm of its if/elif chain *)

Raise(o, exc) == [o EXCEPT !.error = exc]

continued_sub_q_branch_no_open(o, line, extracted_marks) ==
    LET q_num == line[1].d
        part_letter == line[2].s
        text == SubSeq(line, 3, Len(line))
        o1 == Log(o, "Detected continued sub-question", part_letter, q_num)
    IN  IF o1.current_question_number # NoQuestion
           /\ o1.current_question_number = q_num
        THEN add_part(o1, part_letter, text, extracted_marks)
        ELSE add_part(finalize_current_question(o1), part_letter, text,
                      extracted_marks)

\* lines 151-163: "N. (label) text"
continued_sub_q_branch(o, line, extracted_marks) ==
    LET q_num == line[1].d
        part_letter == line[2].s
        text == SubSeq(line, 3, Len(line))
        o1 == Log(o, "Detected continued sub-question", part_letter, q_num)
    IN  IF o1.current_question_number # NoQuestion
           /\ o1.current_question_number = q_num
        THEN add_part(o1, part_letter, text, extracted_marks)
        ELSE LET o2 == finalize_current_question(o1)
                 o3 == [o2 EXCEPT !.current_question_number = q_num,
                                  !.current_question_text = <<>>]
             IN  add_part(o3, part_letter, text, extracted_marks)

open_main_question_noflush(o, q_num_str, text, extracted_marks) ==
    Log([o EXCEPT !.current_question_number = q_num_str,
                  !.current_question_text = text,
                  !.current_marks = extracted_marks,
                  !.current_parts = <<>>,
                  !.current_question_diagrams = <<>>],
        "Detected main question", "", q_num_str)

\* lines 177-184: finalize the previous question and start a new one
open_main_question(o, q_num_str, text, extracted_marks) ==
    LET o1 == finalize_current_question(o)
    IN  Log([o1 EXCEPT !.current_question_number = q_num_str,
                       !.current_question_text = text,
                       !.current_marks = extracted_marks,
                       !.current_parts = <<>>,
                       !.current_question_diagrams = <<>>],
            "Detected main question", "", q_num_str)

\* lines 165-184: "N. text"
main_q_branch(o, line, extracted_marks) ==
    LET q_num_str == line[1].d
        text == Tail(line)
    IN  IF text = <<P("continued")>>
        THEN IF o.current_question_number = q_num_str
             THEN Log(o, "Ignoring explicit continuation marker", "", q_num_str)
             ELSE open_main_question(
                      Log(o, "Warning: Misplaced continuation marker", "",
                          q_num_str),
                      q_num_str, text, extracted_marks)
        ELSE open_main_question(o, q_num_str, text, extracted_marks)

\* lines 192-211: a part that arrives while no question is open
orphaned_sub_q(o, line, extracted_marks) ==
    LET o1 == Log(o, "Warning: Orphaned sub-question found", line[1].s,
                  NoQuestion)
        n == Len(o.questions)
        last_q == o.questions[n]
        part_letter == line[1].s
        text == Tail(line)
        has_parts == last_q.parts # <<>>
        last_part_label == Last(last_q.parts).part_label
    IN  IF o.questions # <<>>
        THEN IF has_parts
             THEN IF ~IsChar(part_letter) \/ ~IsChar(last_part_label)
                  THEN Raise(o1, "TypeError")
                  ELSE IF Ord(part_letter) = Ord(last_part_label) + 1
                  THEN Log([o1 EXCEPT !.questions[n].parts =
                                Append(@, [part_label |-> part_letter,
                                           text |-> text,
                                           marks |-> extracted_marks])],
                           "Heuristically attached orphaned part",
                           part_letter, last_q.question_number)
                  ELSE Log(o1, "Could not attach orphaned part to last question",
                           part_letter, last_q.question_number)
             ELSE Log(o1, "Could not attach orphaned part to last question",
                      part_letter, last_q.question_number)
        \* line 211 reads part_letter, which no path has assigned
        ELSE Raise(o1, "UnboundLocalError")

\* lines 186-211: "(label) text"
sub_q_branch(o, line, extracted_marks) ==
    IF o.current_question_number # NoQuestion
    THEN Log(add_part(o, line[1].s, Tail(line), extracted_marks),
             "Detected sub-question", line[1].s, o.current_question_number)
    ELSE orphaned_sub_q(o, line, extracted_marks)

\* lines 213-224: "N. (continued) text"
continued_main_q_branch(o, line, extracted_marks) ==
    LET q_num == line[1].d
        text == SubSeq(line, 3, Len(line))
    IN  IF o.current_question_number # NoQuestion
           /\ o.current_question_number = q_num
        THEN Log([o EXCEPT !.current_question_text = @ \o text],
                 "Continued main question", "", q_num)
        ELSE LET o1 == Log(o, "Warning: Misidentified continued question", "",
                           q_num)
             IN  IF o.current_question_number # NoQuestion /\ text # <<>>
                 THEN [o1 EXCEPT !.current_question_text = @ \o text]
                 ELSE o1

plain_text_branch_overwrite(o, cleaned_line, extracted_marks) ==
    LET n == Len(o.current_parts)
    IN  IF o.current_parts # <<>>
        THEN [o EXCEPT
                !.current_parts[n].text = @ \o cleaned_line,
                !.current_parts[n].marks =
                    IF extracted_marks # None THEN extracted_marks ELSE @]
        ELSE [o EXCEPT
                !.current_question_text = @ \o cleaned_line,
                !.current_marks =
                    IF extracted_marks # None THEN extracted_marks ELSE @]

plain_text_branch_first_part(o, cleaned_line, extracted_marks) ==
    IF o.current_parts # <<>>
    THEN [o EXCEPT
            !.current_parts[1].text = @ \o cleaned_line,
            !.current_parts[1].marks =
                IF extracted_marks # None /\ @ = None
                THEN extracted_marks ELSE @]
    ELSE [o EXCEPT
            !.current_question_text = @ \o cleaned_line,
            !.current_marks =
                IF extracted_marks # None /\ @ = None
                THEN extracted_marks ELSE @]

\* lines 226-240: any other line while a question is open
plain_text_branch(o, cleaned_line, extracted_marks) ==
    LET n == Len(o.current_parts)
    IN  IF o.current_parts # <<>>
        THEN [o EXCEPT
                !.current_parts[n].text = @ \o cleaned_line,
                !.current_parts[n].marks =
                    IF extracted_marks # None /\ @ = None
                    THEN extracted_marks ELSE @]
        ELSE [o EXCEPT
                !.current_question_text = @ \o cleaned_line,
                !.current_marks =
                    IF extracted_marks # None /\ @ = None
                    THEN extracted_marks ELSE @]

\* lines 128-242: the body of the loop over the lines of a block
process_line(o, line) ==
    LET extracted_marks == extract_marks(line)
        cleaned_line == clean_text(line)
    IN  IF line = <<>> \/ cleaned_line = <<>> THEN o
        ELSE IF continued_sub_q_match(cleaned_line)
        THEN continued_sub_q_branch(o, cleaned_line, extracted_marks)
        ELSE IF main_q_match(cleaned_line)
        THEN main_q_branch(o, cleaned_line, extracted_marks)
        ELSE IF sub_q_match(cleaned_line)
        THEN sub_q_branch(o, cleaned_line, extracted_marks)
        ELSE IF continued_main_q_match(cleaned_line)
        THEN continued_main_q_branch(o, cleaned_line, extracted_marks)
        ELSE IF o.current_question_number # NoQuestion
        THEN plain_text_branch(o, cleaned_line, extracted_marks)
        ELSE o

\* _process_block: the lines of the block in order; an exception ends the call
RECURSIVE process_block(_, _)
process_block(o, block_text) ==
    IF block_text = <<>> \/ o.error # "none" THEN o
    ELSE process_block(process_line(o, Head(block_text)), Tail(block_text))

----------------------------------------------------------------------------
(* _save_questions *)

Range(s) == {s[i] : i \in 1..Len(s)}

\* sorted(list(set(...))) of blob ids
RECURSIVE sorted_set(_)
sorted_set(S) ==
    IF S = {} THEN <<>>
    ELSE LET m == CHOOSE x \in S : \A y \in S : x <= y
         IN  <<m>> \o sorted_set(S \ {m})

merge_step_last_marks(merged, q) ==
    LET hit == {i \in 1..Len(merged) :
                    merged[i].question_number = q.question_number}
        i == CHOOSE j \in hit : TRUE
    IN  IF hit # {}
        THEN [merged EXCEPT ![i] =
                 [@ EXCEPT !.text = @ \o q.text,
                           !.parts = @ \o q.parts,
                           !.diagrams = @ \o q.diagrams,
                           !.marks = IF q.marks # None THEN q.marks ELSE @,
                           !.has_diagram = @ \/ q.has_diagram]]
        ELSE Append(merged, q)

\* lines 419-431: one step of the loop that fills merged_questions
merge_step(merged, q) ==
    LET hit == {i \in 1..Len(merged) :
                    merged[i].question_number = q.question_number}
        i == CHOOSE j \in hit : TRUE
    IN  IF hit # {}
        THEN [merged EXCEPT ![i] =
                 [@ EXCEPT !.text = @ \o q.text,
                           !.parts = @ \o q.parts,
                           !.diagrams = @ \o q.diagrams,
                           !.marks = IF @ = None THEN q.marks ELSE @,
                           !.has_diagram = @ \/ q.has_diagram]]
        ELSE Append(merged, q)

\* lines 416-433: list(merged_questions.values())
RECURSIVE merge_questions(_, _)
merge_questions(merged, qs) ==
    IF qs = <<>> THEN merged
    ELSE merge_questions(merge_step(merged, Head(qs)), Tail(qs))

RECURSIVE merge_log(_, _)
merge_log(seen, qs) ==
    IF qs = <<>> THEN <<>>
    ELSE (IF Head(qs).question_number \in seen
          THEN <<Dbg("Merged question", "", Head(qs).question_number)>>
          ELSE <<>>)
         \o merge_log(seen \cup {Head(qs).question_number}, Tail(qs))

\* lines 437-442: the test a merged record passes to be written
is_valid(q) ==
    /\ q.question_number # NoQuestion
    /\ q.text # <<>> \/ q.parts # <<>>
    /\ q.text # <<>> \/ SelectSeq(q.parts, LAMBDA p : p.text # <<>>) # <<>>

\* lines 439-449: the in-place clean-up of a record
cleaned_record(q) ==
    IF q.question_number # NoQuestion /\ (q.text # <<>> \/ q.parts # <<>>)
    THEN LET q1 == [q EXCEPT !.parts = SelectSeq(@, LAMBDA p : p.text # <<>>)]
         IN  IF q1.text # <<>> \/ q1.parts # <<>>
             THEN [q1 EXCEPT !.diagrams = sorted_set(Range(@))]
             ELSE q1
    ELSE q

\* _save_questions: the new self.questions and the list written to the file
save_questions(qs) ==
    LET merged == merge_questions(<<>>, qs)
        cleaned == [i \in 1..Len(merged) |-> cleaned_record(merged[i])]
        invalid == SelectSeq(merged, LAMBDA q :
                       ~(q.question_number # NoQuestion
                         /\ (q.text # <<>> \/ q.parts # <<>>)))
    IN  [questions |-> cleaned,
         valid_questions |-> SelectSeq(cleaned, is_valid),
         log |-> merge_log({}, qs)
                 \o [i \in 1..Len(invalid) |->
                        Dbg("Skipping invalid question structure", "",
                            invalid[i].question_number)]]

----------------------------------------------------------------------------
(* extract_questions of src/advanced_pdf_extractor_v2.py as a state machine *)

NoPending == [present |-> FALSE, items |-> <<>>]

PageEv(diagrams) == [ev |-> "page", lines |-> <<>>, diagrams |-> diagrams]

BlockEv(block) == [ev |-> "block", lines |-> block, diagrams |-> <<>>]

CallEv(name) == [ev |-> name, lines |-> <<>>, diagrams |-> <<>>]

IdleObj(qs) ==
    /\ questions = qs
    /\ current_question_number = NoQuestion
    /\ current_question_text = <<>>
    /\ current_marks = None
    /\ current_parts = <<>>
    /\ current_question_diagrams = <<>>
    /\ pending_diagrams = NoPending
    /\ debug_output = <<>>
    /\ error = "none"
    /\ valid_questions = <<>>
    /\ page_num = 0
    /\ hist = <<>>

FnIdle == marks_text = <<>> /\ marks_result = None

NoLists == [subject \in {"Mathematics", "Applications_of_Mathematics"} |-> <<>>]

MpIdle ==
    mp_input = <<>> /\ mp_questions = <<>> /\ mp_i = 0 /\ mp_merged = <<>>

DirIdle ==
    /\ dir_files = <<>>
    /\ dir_index = 0
    /\ dir_questions = NoLists
    /\ dir_saved = NoLists
    /\ MpIdle

NumIdle ==
    num_in = <<>> /\ num_out = <<>> /\ num_twice = <<>> /\ FnIdle /\ DirIdle

\* __init__ (lines 14-25)
Init == IdleObj(<<>>) /\ pc = "pages" /\ NumIdle

\* lines 354-367: load the next page; its images go to the open question,
\* or to _pending_diagrams when none is open
LoadPage(has_image) ==
    /\ pc = "pages"
    /\ Len(hist) < MaxEvents
    /\ page_num' = page_num + 1
    /\ LET page_diagrams == IF has_image THEN <<page_num + 1>> ELSE <<>>
           saved == [i \in 1..Len(page_diagrams) |->
                        Dbg("Saved image", "", <<page_diagrams[i]>>)]
       IN  /\ debug_output' = debug_output
                  \o <<Dbg("--- Processing Page", "", <<page_num + 1>>)>>
                  \o saved
           /\ hist' = Append(hist, PageEv(page_diagrams))
           /\ IF current_question_number # NoQuestion
              THEN /\ current_question_diagrams' =
                          current_question_diagrams \o page_diagrams
                   /\ UNCHANGED pending_diagrams
              ELSE /\ pending_diagrams' =
                          [present |-> TRUE, items |-> page_diagrams]
                   /\ UNCHANGED current_question_diagrams
    /\ UNCHANGED <<questions, current_question_number, current_question_text,
                   current_marks, current_parts, error, valid_questions,
                   pc>>
    /\ UNCHANGED <<numVars, fnVars, dirVars, mpVars>>

\* lines 373-396: the next text block of the current page
ProcessBlock(block_text) ==
    /\ pc = "pages"
    /\ page_num >= 1
    /\ Len(hist) < MaxEvents
    /\ hist' = Append(hist, BlockEv(block_text))
    /\ LET take == current_question_number = NoQuestion
                   /\ pending_diagrams.present
           o0 == IF take
                 THEN [Obj EXCEPT !.current_question_diagrams =
                                      pending_diagrams.items]
                 ELSE Obj
           o1 == process_block(o0, block_text)
       IN  /\ pending_diagrams' = IF take THEN NoPending ELSE pending_diagrams
           /\ SetObj(o1)
           /\ pc' = IF o1.error # "none" THEN "crashed" ELSE "pages"
    /\ UNCHANGED <<valid_questions, page_num>>
    /\ UNCHANGED <<numVars, fnVars, dirVars, mpVars>>

\* line 401: the terminal flush after the last page
FinalFlush ==
    /\ pc = "pages"
    /\ SetObj(finalize_current_question(Obj))
    /\ pc' = "flushed"
    /\ hist' = Append(hist, CallEv("flush"))
    /\ UNCHANGED <<pending_diagrams, valid_questions, page_num>>
    /\ UNCHANGED <<numVars, fnVars, dirVars, mpVars>>

\* lines 404-405: merge, validate and write the result
SaveQuestions ==
    /\ pc = "flushed"
    /\ LET r == save_questions(questions)
       IN  /\ questions' = r.questions
           /\ valid_questions' = r.valid_questions
           /\ debug_output' = debug_output \o r.log
    /\ pc' = "done"
    /\ hist' = Append(hist, CallEv("save"))
    /\ UNCHANGED <<current_question_number, current_question_text,
                   current_marks, current_parts, current_question_diagrams,
                   pending_diagrams, error, page_num>>
    /\ UNCHANGED <<numVars, fnVars, dirVars, mpVars>>

Next ==
    \/ \E has_image \in BOOLEAN : LoadPage(has_image)
    \/ \E block_text \in Blocks : ProcessBlock(block_text)
    \/ FinalFlush
    \/ SaveQuestions

Spec == Init /\ [][Next]_vars

----------------------------------------------------------------------------
(* extract_questions on documents whose lines carry marks annotations and   *)
(* whose part lines may repeat the number of their question                 *)

\* "2. marks 3"
L_2marks == <<ND(<<2>>), W("marks"), N(<<3>>)>>

\* "4. Solve x 0"
L_4zero == <<ND(<<4>>), W("Solve"), W("x"), N(<<0>>)>>

\* "(b) marks 1"
L_bmark == <<P("b"), W("marks"), N(<<1>>)>>

\* "5"
L_five == <<N(<<5>>)>>

\* "7. (a) first part 2"
L_7a == <<ND(<<7>>), P("a"), W("first"), W("part"), N(<<2>>)>>

MarkLines ==
    {L_7find, L_a, L_plain, L_2marks, L_4zero, L_bmark, L_five, L_7a, L_7cont}

MarkNext ==
    \/ LoadPage(FALSE)
    \/ \E l \in MarkLines : ProcessBlock(<<l>>)
    \/ FinalFlush
    \/ SaveQuestions

SpecAnnot == Init /\ [][MarkNext]_vars

----------------------------------------------------------------------------
(* The assembler methods called one at a time on an extractor object that   *)
(* has already finalized some questions (the state in which                 *)
(* extract_questions leaves the object).                                    *)

Part(label, text, marks) == [part_label |-> label, text |-> text, marks |-> marks]

Rec(qn, text, marks, parts, diagrams) ==
    [question_number |-> qn, text |-> text, marks |-> marks, parts |-> parts,
     has_diagram |-> contains_diagram(text)
                     \/ \E i \in 1..Len(parts) : contains_diagram(parts[i].text),
     diagrams |-> diagrams]

\* records as _finalize_current_question leaves them
FinalizedRecs ==
    {Rec(<<7>>, <<W("Find")>>, None, <<>>, <<1>>),
     Rec(<<7>>, <<W("area")>>, 2, <<Part("a", <<W("x")>>, 1)>>, <<3>>),
     Rec(<<7>>, <<>>, 3, <<Part("b", <<W("diagram")>>, None)>>, <<2>>),
     Rec(<<5>>, <<W("Express")>>, None, <<>>, <<>>),
     Rec(<<5>>, <<W("x")>>, 3, <<Part("a", <<W("y")>>, None)>>, <<4>>),
     Rec(<<1>>, <<W("Evaluate"), N(<<2>>), W("marks")>>, None, <<>>, <<>>)}

RECURSIVE SeqsUpTo(_, _)
SeqsUpTo(S, n) ==
    IF n = 0 THEN {<<>>}
    ELSE LET shorter == SeqsUpTo(S, n - 1)
         IN  shorter \cup {Append(q, x) : q \in {r \in shorter : Len(r) = n - 1},
                                          x \in S}

UnitLines == {L_1eval, L_a, L_b1}

UnitInit ==
    /\ \E qs \in SeqsUpTo(FinalizedRecs, MaxRecs) : IdleObj(qs)
    /\ pc = "unit"
    /\ NumIdle

Calls == Len(SelectSeq(hist, LAMBDA e : e.ev # "page"))

\* a call of _process_block(block_text, page_num)
UnitProcessBlock(block_text) ==
    /\ pc = "unit"
    /\ Calls < MaxCalls
    /\ hist' = Append(hist, BlockEv(block_text))
    /\ LET o1 == process_block(Obj, block_text)
       IN  /\ SetObj(o1)
           /\ pc' = IF o1.error # "none" THEN "crashed" ELSE "unit"
    /\ UNCHANGED <<pending_diagrams, valid_questions, page_num>>
    /\ UNCHANGED <<numVars, fnVars, dirVars, mpVars>>

\* a call of _finalize_current_question()
UnitFinalize ==
    /\ pc = "unit"
    /\ Calls < MaxCalls
    /\ SetObj(finalize_current_question(Obj))
    /\ hist' = Append(hist, CallEv("flush"))
    /\ UNCHANGED <<pending_diagrams, valid_questions, page_num, pc>>
    /\ UNCHANGED <<numVars, fnVars, dirVars, mpVars>>

\* a call of _save_questions()
UnitSave ==
    /\ pc = "unit"
    /\ LET r == save_questions(questions)
       IN  /\ questions' = r.questions
           /\ valid_questions' = r.valid_questions
           /\ debug_output' = debug_output \o r.log
    /\ pc' = "done"
    /\ hist' = Append(hist, CallEv("save"))
    /\ UNCHANGED <<current_question_number, current_question_text,
                   current_marks, current_parts, current_question_diagrams,
                   pending_diagrams, error, page_num>>
    /\ UNCHANGED <<numVars, fnVars, dirVars, mpVars>>

UnitNext ==
    \/ \E l \in UnitLines : UnitProcessBlock(<<l>>)
    \/ UnitFinalize
    \/ UnitSave

SpecUnit == UnitInit /\ [][UnitNext]_vars

----------------------------------------------------------------------------
(* _fix_question_numbering of src/patched_extractor.py.  A question_number  *)
(* "N." or "N. (x)" is the record [d |-> digits of N, sub |-> x or ""].     *)

QNum(d, sub) == [d |-> d, sub |-> sub]

\* re.match(r'(\d+)\.(?:\s*\(([a-z])\))?') and int(parts.group(1))
parse_question_number(qn) ==
    [matched |-> qn.d # <<>>, main_num |-> ParseInt(qn.d), sub_part |-> qn.sub]

format_question_number_plain(current_num, sub_part) ==
    QNum(FormatInt(current_num), "")

\* f"{current_num}. ({sub_part})" / f"{current_num}."
format_question_number(current_num, sub_part) ==
    QNum(FormatInt(current_num), sub_part)

\* lines 110-120: question_groups, in insertion order of the main numbers
RECURSIVE group_questions(_, _)
group_questions(groups, qs) ==
    IF qs = <<>> THEN groups
    ELSE LET question == Head(qs)
             parts == parse_question_number(question.question_number)
             hit == {i \in 1..Len(groups) : groups[i].main_num = parts.main_num}
             i == CHOOSE j \in hit : TRUE
             item == [sub_part |-> parts.sub_part, question |-> question]
             groups1 ==
                 IF ~parts.matched THEN groups
                 ELSE IF hit # {}
                 THEN [groups EXCEPT ![i].items = Append(@, item)]
                 ELSE Append(groups, [main_num |-> parts.main_num,
                                      items |-> <<item>>])
         IN  group_questions(groups1, Tail(qs))

\* a stable sort, as Python's sorted: keys[i] is the sort key of s[i]
RECURSIVE insert_sorted(_, _, _)
insert_sorted(perm, x, keys) ==
    IF perm = <<>> THEN <<x>>
    ELSE IF keys[Last(perm)] <= keys[x] THEN Append(perm, x)
    ELSE Append(insert_sorted(Front(perm), x, keys), Last(perm))

RECURSIVE stable_perm(_, _)
stable_perm(n, keys) ==
    IF n = 0 THEN <<>>
    ELSE insert_sorted(stable_perm(n - 1, keys), n, keys)

stable_sort(s, keys) ==
    LET perm == stable_perm(Len(s), keys)
    IN  [i \in 1..Len(s) |-> s[perm[i]]]

unsorted_groups(groups) == groups

descending_groups(groups) ==
    stable_sort(groups, [i \in 1..Len(groups) |-> 0 - groups[i].main_num])

\* line 123: sorted(question_groups.items())
sort_groups(groups) ==
    stable_sort(groups, [i \in 1..Len(groups) |-> groups[i].main_num])

\* line 131: sorted(group, key=lambda x: x[0] if x[0] else "")
sort_sub_parts(group) ==
    stable_sort(group, [i \in 1..Len(group) |-> Ord(group[i].sub_part)])

\* lines 129-141: number the groups from current_num on
RECURSIVE renumber(_, _)
renumber(sorted_groups, current_num) ==
    IF sorted_groups = <<>> THEN <<>>
    ELSE LET sorted_group == sort_sub_parts(Head(sorted_groups).items)
         IN  [i \in 1..Len(sorted_group) |->
                 [sorted_group[i].question EXCEPT !.question_number =
                      format_question_number(current_num,
                                             sorted_group[i].sub_part)]]
             \o renumber(Tail(sorted_groups), current_num + 1)

first_number == 1

renumber_groups_from_zero(sorted_groups) == renumber(sorted_groups, 0)

\* lines 125-143
renumber_groups(sorted_groups) == renumber(sorted_groups, first_number)

\* _fix_question_numbering
fix_question_numbering(qs) ==
    renumber_groups(sort_groups(group_questions(<<>>, qs)))

Digits == {<<0>>, <<1>>, <<2>>, <<3>>, <<0, 3>>, <<7>>, <<1, 2>>}

SubParts == {"", "a", "b"}

QNums == {QNum(d, sub) : d \in Digits, sub \in SubParts}

\* the records of one subject; text tells the records apart
NumInputs ==
    {[i \in 1..Len(f) |-> [question_number |-> f[i], text |-> i]] :
         f \in SeqsUpTo(QNums, MaxRecs) \ {<<>>}}

NumInit ==
    /\ IdleObj(<<>>)
    /\ pc = "num"
    /\ num_in \in NumInputs
    /\ num_out = <<>>
    /\ num_twice = <<>>
    /\ FnIdle
    /\ DirIdle

\* line 89: questions = self._fix_question_numbering(questions, subject)
FixNumbering ==
    /\ pc = "num"
    /\ num_out' = fix_question_numbering(num_in)
    /\ pc' = "fixed"
    /\ UNCHANGED <<num_in, num_twice>>
    /\ UNCHANGED <<asmVars, fnVars, dirVars, mpVars>>

\* the same call on the list it returned
FixAgain ==
    /\ pc = "fixed"
    /\ num_twice' = fix_question_numbering(num_out)
    /\ pc' = "again"
    /\ UNCHANGED <<num_in, num_out>>
    /\ UNCHANGED <<asmVars, fnVars, dirVars, mpVars>>

NumNext == FixNumbering \/ FixAgain

SpecNum == NumInit /\ [][NumNext]_vars

----------------------------------------------------------------------------
(* _extract_marks of src/advanced_pdf_extractor_v2.py on the characters of  *)
(* its argument.  The text is a sequence of symbols: "marks" stands for the *)
(* word mark or marks, "2" for a digit, "x" for any other character.        *)

Symbols == {"marks", ":", " ", "[", "]", "(", ")", "2", "x"}

IsDigit(c) == c = "2"

IsSpace(c) == c = " "

\* the symbol at position i; past the end there is none
At(t, i) == IF i \in 1..Len(t) THEN t[i] ELSE ""

\* (?:marks?[:\s]*|\s) tried at position s: the positions right after it
prefix_ends(t, s) ==
    (IF At(t, s) = "marks"
     THEN {e \in (s + 1)..(Len(t) + 1) :
               \A i \in (s + 1)..(e - 1) : t[i] \in {":", " "}}
     ELSE {})
    \cup (IF IsSpace(At(t, s)) THEN {s + 1} ELSE {})

\* an optional symbol c (\[? and \]?) tried at the positions E
optional_ends(t, E, c) == E \cup {e + 1 : e \in {x \in E : At(t, x) = c}}

\* (\d+) tried at the positions E: the groups <<first, last>>
digit_groups(t, E) ==
    {<<e, f>> : e \in E, f \in 1..Len(t)} \cap
    {g \in (1..(Len(t) + 1)) \X (1..Len(t)) :
         g[1] <= g[2] /\ \A i \in g[1]..g[2] : IsDigit(t[i])}

tail_matches_anywhere(t, f) == TRUE

\* \]?\s*$ tried right after a group that ends at f
tail_matches(t, f) ==
    \E e \in optional_ends(t, {f + 1}, "]") :
        \A i \in e..Len(t) : IsSpace(t[i])

\* every way the pattern matches: <<start, first of group 1, last of group 1>>
marks_matches(t) ==
    {m \in (1..Len(t)) \X (1..(Len(t) + 1)) \X (1..Len(t)) :
         /\ <<m[2], m[3]>>
                \in digit_groups(t, optional_ends(t, prefix_ends(t, m[1]), "["))
         /\ tail_matches(t, m[3])}

\* int(match.group(1))
int_of(t, first, last) ==
    ParseInt([i \in 1..(last - first + 1) |->
                  IF t[first + i - 1] = "2" THEN 2 ELSE 0])

\* re.search: the leftmost match, its digits taken greedily
search_marks(t) ==
    LET ms == marks_matches(t)
        m == CHOOSE x \in ms :
                 \A y \in ms : x[1] < y[1] \/ (x[1] = y[1] /\ x[3] >= y[3])
    IN  IF ms = {} THEN None ELSE int_of(t, m[2], m[3])

Texts == SeqsUpTo(Symbols, MaxLen)

MarksInit ==
    /\ IdleObj(<<>>)
    /\ num_in = <<>> /\ num_out = <<>> /\ num_twice = <<>>
    /\ pc = "marks"
    /\ marks_text \in Texts
    /\ marks_result = None
    /\ DirIdle

\* a call of _extract_marks(text)
ExtractMarks ==
    /\ pc = "marks"
    /\ marks_result' = search_marks(marks_text)
    /\ pc' = "extracted"
    /\ UNCHANGED <<asmVars, numVars, marks_text, dirVars, mpVars>>

MarksNext == ExtractMarks

SpecRegex == MarksInit /\ [][MarksNext]_vars

----------------------------------------------------------------------------
(* extract_from_directory of src/patched_extractor.py: the run over the     *)
(* PDF files of a directory.  A file is modelled by what decides its        *)
(* treatment: its name (the "mi_" prefix, the subject it names), whether    *)
(* the PDF libraries can read it, and the question numbers that             *)
(* extract_from_pdf finds in it.                                            *)

Subjects == {"Mathematics", "Applications_of_Mathematics"}

File(id, prefix, names, fault, numbers) ==
    [id |-> id, prefix |-> prefix, names |-> names, fault |-> fault,
     numbers |-> numbers]

\* two Mathematics papers, an Applications paper, a file that
\* convert_from_path cannot read, a PDF without pages, a marking-instruction
\* file and a file whose name tells no subject
DirFiles ==
    {File("A", "", "Mathematics_Paper", "none",
          <<QNum(<<1>>, ""), QNum(<<2>>, "")>>),
     File("B", "", "Mathematics_Paper", "none",
          <<QNum(<<1>>, ""), QNum(<<3>>, "")>>),
     File("C", "", "Applications-of-Mathematics", "none",
          <<QNum(<<1>>, "")>>),
     File("D", "", "Mathematics_Paper", "unreadable", <<>>),
     File("E", "", "Mathematics_Paper", "no_pages", <<>>),
     File("M", "mi_", "Mathematics_Paper", "none", <<QNum(<<1>>, "")>>),
     File("N", "", "other", "none", <<QNum(<<1>>, "")>>)}

\* _determine_subject (None is "")
determine_subject(file) ==
    IF file.names = "Mathematics_Paper" THEN "Mathematics"
    ELSE IF file.names = "Applications-of-Mathematics"
    THEN "Applications_of_Mathematics"
    ELSE ""

\* extract_from_pdf: convert_from_path raises on a file it cannot read,
\* pdf_reader.pages[0] raises on a PDF without pages; nothing catches either
extract_from_pdf(file) ==
    IF file.fault = "unreadable"
    THEN [error |-> "PDFPageCountError", questions |-> <<>>]
    ELSE IF file.fault = "no_pages"
    THEN [error |-> "IndexError", questions |-> <<>>]
    ELSE [error |-> "none",
          questions |-> [i \in 1..Len(file.numbers) |->
                            [question_number |-> file.numbers[i],
                             text |-> <<file.id, i>>]]]

\* the dictionaries of the list self.questions[subject] after
\* _fix_question_numbering has renumbered them in place
renumbered_in_place(qs, fixed) ==
    [i \in 1..Len(qs) |->
        IF \E j \in 1..Len(fixed) : fixed[j].text = qs[i].text
        THEN fixed[CHOOSE j \in 1..Len(fixed) : fixed[j].text = qs[i].text]
        ELSE qs[i]]

Directories ==
    {d \in SeqsUpTo(DirFiles, MaxDocs) :
         \A i, j \in 1..Len(d) : i # j => d[i] # d[j]}

\* lines 51-58
DirInit ==
    /\ IdleObj(<<>>)
    /\ num_in = <<>> /\ num_out = <<>> /\ num_twice = <<>>
    /\ FnIdle
    /\ pc = "dir"
    /\ dir_files \in Directories
    /\ dir_index = 0
    /\ dir_questions = NoLists
    /\ dir_saved = NoLists
    /\ MpIdle

\* lines 61-83: the body of the loop over the files of the directory
ProcessFile ==
    /\ pc = "dir"
    /\ dir_index < Len(dir_files)
    /\ LET file == dir_files[dir_index + 1]
           subject == determine_subject(file)
           r == extract_from_pdf(file)
       IN  IF file.prefix = "mi_" \/ subject = ""
           THEN /\ dir_index' = dir_index + 1
                /\ UNCHANGED <<dir_questions, error, pc>>
           ELSE IF r.error # "none"
           THEN /\ error' = r.error
                /\ pc' = "dir_aborted"
                /\ UNCHANGED <<dir_questions, dir_index>>
           ELSE /\ dir_questions' =
                       [dir_questions EXCEPT ![subject] = @ \o r.questions]
                /\ dir_index' = dir_index + 1
                /\ UNCHANGED <<error, pc>>
    /\ UNCHANGED <<dir_files, dir_saved>>
    /\ UNCHANGED <<questions, current_question_number, current_question_text,
                   current_marks, current_parts, current_question_diagrams,
                   pending_diagrams, debug_output, valid_questions, page_num,
                   hist>>
    /\ UNCHANGED <<numVars, fnVars, mpVars>>

\* lines 86-94: renumber and write the list of every subject that has one
SaveSubjects ==
    /\ pc = "dir"
    /\ dir_index = Len(dir_files)
    /\ dir_saved' = [subject \in Subjects |->
                        fix_question_numbering(dir_questions[subject])]
    /\ dir_questions' = [subject \in Subjects |->
                            renumbered_in_place(dir_questions[subject],
                                                dir_saved'[subject])]
    /\ pc' = "dir_saved"
    /\ UNCHANGED <<dir_files, dir_index>>
    /\ UNCHANGED <<asmVars, numVars, fnVars, mpVars>>

DirNext == ProcessFile \/ SaveSubjects

SpecDir == DirInit /\ [][DirNext]_vars

----------------------------------------------------------------------------
(* _handle_multi_page_questions of src/final_extractor_fixed.py, one        *)
(* iteration of its while loop per step.  The text of a record is a         *)
(* sequence of words; += "\n" + text is concatenation.                      *)

\* "continued" in question.get("text", "").lower()
is_continuation(question) ==
    \E k \in 1..Len(question.text) :
        question.text[k] \in {"continued", "Continued", "(continued)"}

QTexts ==
    {<<"Find">>, <<"area">>, <<"(continued)", "more">>, <<"Continued">>}

\* the lists _extract_questions_from_text passes (line 269)
MultiPageInputs ==
    {[i \in 1..Len(f) |-> [question_number |-> i, text |-> f[i]]] :
         f \in SeqsUpTo(QTexts, MaxQs)}

MultiPageInit ==
    /\ IdleObj(<<>>)
    /\ num_in = <<>> /\ num_out = <<>> /\ num_twice = <<>>
    /\ FnIdle
    /\ dir_files = <<>> /\ dir_index = 0
    /\ dir_questions = NoLists /\ dir_saved = NoLists
    /\ pc = "mp"
    /\ mp_input \in MultiPageInputs
    /\ mp_questions = mp_input
    /\ mp_i = 0
    /\ mp_merged = <<>>

\* lines 339-349: one iteration of the loop
MultiPageIteration ==
    /\ pc = "mp"
    /\ mp_i < Len(mp_questions)
    /\ LET current == mp_questions[mp_i + 1]
       IN  IF mp_i + 1 < Len(mp_questions)
              /\ is_continuation(mp_questions[mp_i + 2])
           THEN /\ mp_questions' =
                       [mp_questions EXCEPT ![mp_i + 1].text =
                            @ \o mp_questions[mp_i + 2].text]
                /\ mp_i' = mp_i + 2
                /\ UNCHANGED mp_merged
           ELSE /\ mp_merged' = Append(mp_merged, current)
                /\ mp_i' = mp_i + 1
                /\ UNCHANGED mp_questions
    /\ UNCHANGED <<mp_input, pc>>
    /\ UNCHANGED <<asmVars, numVars, fnVars, dirVars>>

\* line 351: return merged_questions
MultiPageReturn ==
    /\ pc = "mp"
    /\ mp_i >= Len(mp_questions)
    /\ pc' = "mp_returned"
    /\ UNCHANGED <<asmVars, numVars, fnVars, dirVars, mpVars>>

MultiPageNext == MultiPageIteration \/ MultiPageReturn

SpecMultiPage == MultiPageInit /\ [][MultiPageNext]_vars

----------------------------------------------------------------------------
(* Vocabulary of the properties *)

Idle == current_question_number = NoQuestion

InMain == current_question_number # NoQuestion /\ current_parts = <<>>

InPart == current_question_number # NoQuestion /\ current_parts # <<>>

\* the step that consumes the one-line block l
Handled(l) == hist' = Append(hist, BlockEv(<<l>>))

\* the step that runs _save_questions
Saved == hist' = Append(hist, CallEv("save"))

IsContinuedMainLine(l) ==
    Len(l) >= 2 /\ l[1].k = "numdot" /\ l[2] = P("continued")

IsPartStartLine(l) == Len(l) >= 2 /\ l[1].k = "paren"

\* "N. content" that is neither a continuation marker nor "N. (label) text"
IsMainStartLine(l) ==
    /\ Len(l) >= 2
    /\ l[1].k = "numdot"
    /\ ~IsContinuedMainLine(l)
    /\ ~(Len(l) >= 3 /\ l[2].k = "paren")

\* the number at the very end of a line, if it has one
LineHint(l) ==
    IF Len(l) >= 2 /\ Last(l).k = "num" THEN ParseInt(Last(l).d) ELSE None

HasWord(text) ==
    \E i \in 1..Len(text) : text[i].k = "word" /\ ~IsMarksWord(text[i])

Nth(S, k) == CHOOSE x \in S : Cardinality({y \in S : y < x}) = k - 1

RECURSIVE JoinOver(_, _)
JoinOver(vals, S) ==
    IF S = {} THEN <<>>
    ELSE LET m == CHOOSE x \in S : \A y \in S : x <= y
         IN  vals[m] \o JoinOver(vals, S \ {m})

LastBlockLine == Last(hist).lines[1]

----------------------------------------------------------------------------
(* C1 *)

----------------------------------------------------------------------------
(* C2 *)

\* C2: a line "N. (continued) <text>" whose N is the number of the open
\* question appends <text> to the main text of the open question and changes
\* nothing else: no new question, no new part.
C2_ContinuedMainAppends ==
    [][\A l \in Lines :
         (Handled(l) /\ IsContinuedMainLine(l)
          /\ current_question_number = l[1].d) =>
            /\ current_question_text'
                   = current_question_text \o SubSeq(l, 3, Len(l))
            /\ current_parts' = current_parts
            /\ questions' = questions
            /\ current_question_number' = current_question_number]_vars

----------------------------------------------------------------------------
(* C3 *)

ScenarioC(d1, d3) ==
    <<PageEv(d1), BlockEv(<<L_7find>>), PageEv(<<2>>), PageEv(d3),
      BlockEv(<<L_7cont>>), CallEv("flush"), CallEv("save")>>

\* C3: "7. Find the area" on page 1, a diagram-only page 2 and
\* "7. (continued) of the shape." on page 3 give exactly one record "7."
\* without parts, holding the page-2 blob and the text of both fragments.
C3_ScenarioC ==
    (pc = "done" /\ \E d1 \in {<<>>, <<1>>}, d3 \in {<<>>, <<3>>} :
                        hist = ScenarioC(d1, d3)) =>
        /\ Len(valid_questions) = 1
        /\ valid_questions[1].question_number = <<7>>
        /\ valid_questions[1].parts = <<>>
        /\ 2 \in Range(valid_questions[1].diagrams)
        /\ valid_questions[1].text
               = <<W("Find"), W("the"), W("area"), W("of"), W("the"),
                   W("shape.")>>

----------------------------------------------------------------------------
(* C4 *)

FirstAt(qs) ==
    {i \in 1..Len(qs) :
         \A j \in 1..(i - 1) : qs[j].question_number # qs[i].question_number}

SameKey(qs, i) ==
    {j \in 1..Len(qs) : qs[j].question_number = qs[i].question_number}

FirstKnownMarks(qs, S) ==
    LET known == {j \in S : qs[j].marks # None}
    IN  IF known = {} THEN None
        ELSE qs[CHOOSE j \in known : \A m \in known : j <= m].marks

MergedAsSpecified(qs, out) ==
    /\ Len(out) = Cardinality(FirstAt(qs))
    /\ \A k \in 1..Len(out) :
         LET i == Nth(FirstAt(qs), k)
             same == SameKey(qs, i)
         IN  /\ out[k].question_number = qs[i].question_number
             /\ out[k].text
                    = JoinOver([j \in 1..Len(qs) |-> qs[j].text], same)
             /\ out[k].parts
                    = JoinOver([j \in 1..Len(qs) |-> qs[j].parts], same)
             /\ Range(out[k].diagrams)
                    = UNION {Range(qs[j].diagrams) : j \in same}
             /\ out[k].marks = FirstKnownMarks(qs, same)

\* C4: the cross-page merge yields one record per question_number in order
\* of first occurrence; text and part lists are concatenated in encounter
\* order, diagrams are united, marks is the first known marks value.
C4_MergeByNumber ==
    [][Saved => MergedAsSpecified(questions, valid_questions')]_vars

\* three records were merged into two, one of them with known marks and parts
C4_Witness ==
    /\ pc = "done"
    /\ Len(valid_questions) = 2
    /\ Cardinality({i \in 1..Len(debug_output) :
                        debug_output[i].msg = "Merged question"}) = 1
    /\ \E k \in 1..2 : /\ valid_questions[k].marks # None
                       /\ Len(valid_questions[k].diagrams) = 2
                       /\ valid_questions[k].parts # <<>>

----------------------------------------------------------------------------
(* C5 *)

OpensQuestion(e) == e.ev = "block" /\ main_q_match(e.lines[1])

IdleBefore(i) == \A j \in 1..(i - 1) : ~OpensQuestion(hist[j])

OpenedAfter(i) == {j \in (i + 1)..Len(hist) : OpensQuestion(hist[j])}

\* C5: the diagrams of a page loaded while no question is open end up in the
\* diagram set of the next question that opens, and in no other.
C5_PendingDiagramsAttach ==
    pc = "done" =>
        \A i \in 1..Len(hist) :
            (hist[i].ev = "page" /\ hist[i].diagrams # <<>> /\ IdleBefore(i)
             /\ OpenedAfter(i) # {}) =>
                LET j == CHOOSE x \in OpenedAfter(i) :
                             \A y \in OpenedAfter(i) : x <= y
                    n == hist[j].lines[1][1].d
                    b == hist[i].diagrams[1]
                IN  \A k \in 1..Len(valid_questions) :
                        (valid_questions[k].question_number = n)
                            <=> (b \in Range(valid_questions[k].diagrams))

----------------------------------------------------------------------------
(* C6 *)

\* C6: a PartStart line that arrives while no question is open and none has
\* been finalized is dropped with a diagnostic that names its label; no error
\* is raised, the assembler stays Idle and processing goes on.
C6_OrphanDropped ==
    [][\A l \in Lines :
         (Handled(l) /\ IsPartStartLine(l) /\ Idle /\ questions = <<>>) =>
            /\ error' = "none"
            /\ pc' = "pages"
            /\ Idle'
            /\ questions' = questions
            /\ \E k \in (Len(debug_output) + 1)..Len(debug_output') :
                   debug_output'[k].label = l[1].s]_vars

----------------------------------------------------------------------------
(* C7 *)

\* C7: a PartStart line that arrives while no question is open is attached
\* as a part to the most recently finalized question when that question has
\* no parts (Scenario A: "(a) continued text" after question 1 was flushed).
C7_OrphanAttachesToPartless ==
    [][\A l \in UnitLines :
         (Handled(l) /\ IsPartStartLine(l) /\ Idle /\ questions # <<>>
          /\ Last(questions).parts = <<>>) =>
            /\ Len(questions') = Len(questions)
            /\ Len(Last(questions').parts) = 1
            /\ Last(questions').parts[1].part_label = l[1].s]_vars

----------------------------------------------------------------------------
(* C8, C9, C10 *)

Numbered == pc \in {"fixed", "again"}

\* the main number a returned record carries
Main(r) == ParseInt(r.question_number.d)

\* the main number with which it was detected
Orig(r) == ParseInt(num_in[r.text].question_number.d)

FirstSeen(x) ==
    CHOOSE i \in 1..Len(num_in) :
        /\ ParseInt(num_in[i].question_number.d) = x
        /\ \A j \in 1..(i - 1) : ParseInt(num_in[j].question_number.d) # x

\* C8 as claimed: the main numbers of the returned list are 1, 2, 3, ...,
\* each entry one more than the entry before it.
C8_StrictlyIncreasing ==
    Numbered => \A i \in 1..Len(num_out) : Main(num_out[i]) = i

\* C8: the main numbers of the returned list start at 1 and never decrease;
\* an entry has the number of the entry before it when both were detected
\* with the same main number and one more otherwise.
C8_ConsecutiveGroups ==
    Numbered =>
        /\ Len(num_out) = Len(num_in)
        /\ Main(num_out[1]) = 1
        /\ \A i \in 1..(Len(num_out) - 1) :
               Main(num_out[i + 1]) =
                   Main(num_out[i])
                   + (IF Orig(num_out[i + 1]) = Orig(num_out[i]) THEN 0 ELSE 1)

\* detected [7, 3, 3] was renumbered [1, 1, 2]
C8_Witness ==
    /\ pc = "fixed"
    /\ Len(num_out) = 3
    /\ Orig(num_out[1]) = 3 /\ Orig(num_out[2]) = 3 /\ Orig(num_out[3]) = 7
    /\ num_out[3].text = 1
    /\ Main(num_out[1]) = 1 /\ Main(num_out[2]) = 1 /\ Main(num_out[3]) = 2

C10_Idempotent == pc = "again" => num_twice = num_out

\* the first pass reordered and renumbered, the second was applied to it
C10_Witness ==
    /\ pc = "again"
    /\ Len(num_out) = 3
    /\ num_out[1].text # 1
    /\ \E i \in 1..3 : num_out[i].question_number # num_in[i].question_number
    /\ \E i \in 1..3 : num_out[i].question_number.sub # ""

----------------------------------------------------------------------------
(* C11 *)

DistinctLabels(parts) ==
    \A i, j \in 1..Len(parts) :
        i # j => parts[i].part_label # parts[j].part_label

\* C11: in every record of the final output no two parts share a label.
C11_UniquePartLabels ==
    pc = "done" =>
        \A k \in 1..Len(valid_questions) :
            DistinctLabels(valid_questions[k].parts)

----------------------------------------------------------------------------
(* C12 *)

Label(r) == r.question_number.sub

OrigLabel(r) == num_in[r.text].question_number.sub

----------------------------------------------------------------------------
(* C13 *)

NonEmptyRecord(q) ==
    q.text # <<>> \/ \E i \in 1..Len(q.parts) : q.parts[i].text # <<>>

Logged(msg) == {i \in 1..Len(debug_output) : debug_output[i].msg = msg}

\* C13: every finalized record and every record written to the output has
\* non-empty text or a part with non-empty text; a question that is flushed
\* without either is not in the list.
C13_NonEmptyRecords ==
    /\ \A k \in 1..Len(questions) : NonEmptyRecord(questions[k])
    /\ \A k \in 1..Len(valid_questions) : NonEmptyRecord(valid_questions[k])
    /\ pc \in {"pages", "flushed"} =>
           Len(questions) = Cardinality(Logged("Finalized question"))

\* a question whose text was only its marks annotation and whose only part
\* was empty too was flushed and dropped; another question was written
C13_Witness ==
    /\ pc = "done"
    /\ Len(valid_questions) = 1
    /\ \E i \in Logged("Skipping question due to empty content"),
          j \in Logged("Skipping empty part") :
           debug_output[i].qnum = debug_output[j].qnum

----------------------------------------------------------------------------
(* C14 *)

\* the marks hint of the line a step consumes, if it consumes one
StepHint ==
    IF Last(hist').ev = "block" THEN LineHint(Last(hist').lines[1]) ELSE None

PartMarks(parts) == {parts[j].marks : j \in 1..Len(parts)}

Flushed == ~Saved /\ Len(questions') = Len(questions) + 1

----------------------------------------------------------------------------
(* C15 *)

PositiveOrUnknown(m) == m = None \/ m >= 1

\* C15: the marks of every finalized question and of each of its parts are
\* unknown or an integer greater than or equal to 1.
C15_MarksPositive ==
    \A k \in 1..Len(questions) :
        /\ PositiveOrUnknown(questions[k].marks)
        /\ \A m \in PartMarks(questions[k].parts) : PositiveOrUnknown(m)

----------------------------------------------------------------------------
(* C16 *)

\* the length of the text without its trailing spaces
TrimmedLen(t) ==
    IF \A i \in 1..Len(t) : IsSpace(t[i]) THEN 0
    ELSE CHOOSE n \in 1..Len(t) :
             ~IsSpace(t[n]) /\ \A i \in (n + 1)..Len(t) : IsSpace(t[i])

\* where the number at the very end of the text ends (a closing bracket may
\* follow it), 0 when the text does not end in a digit
NumberEnd(t) ==
    LET n == TrimmedLen(t)
        e == IF n >= 1 /\ t[n] = "]" THEN n - 1 ELSE n
    IN  IF e >= 1 /\ IsDigit(t[e]) THEN e ELSE 0

\* where that number starts
NumberStart(t) ==
    CHOOSE b \in 1..NumberEnd(t) :
        /\ \A i \in b..NumberEnd(t) : IsDigit(t[i])
        /\ ~IsDigit(At(t, b - 1))

\* the number is preceded (an opening bracket aside) by whitespace or by the
\* word marks, with or without colons and spaces after it
InMarksContext(t) ==
    LET b == NumberStart(t)
        c == IF At(t, b - 1) = "[" THEN b - 2 ELSE b - 1
    IN  \/ IsSpace(At(t, c))
        \/ \E w \in 1..c : /\ t[w] = "marks"
                           /\ \A i \in (w + 1)..c : t[i] \in {":", " "}

----------------------------------------------------------------------------
(* C17 *)

IsPlainTextLine(l) == l[1].k \notin {"numdot", "paren"}

\* C17: a PartStart line that arrives while a question is open appends a
\* part with the line's label, trailing text and marks hint and changes
\* nothing else, so the assembler is in InPart; a PlainText line that arrives
\* in InPart is appended to the text of the newest part and to nothing else.
C17_PartStartOpensPart ==
    [][\A l \in MarkLines :
         /\ (Handled(l) /\ IsPartStartLine(l) /\ ~Idle) =>
                /\ current_parts' =
                       Append(current_parts,
                              [part_label |-> l[1].s, text |-> Tail(l),
                               marks |-> LineHint(l)])
                /\ InPart'
                /\ questions' = questions
                /\ current_question_number' = current_question_number
                /\ current_question_text' = current_question_text
                /\ current_marks' = current_marks
         /\ (Handled(l) /\ IsPlainTextLine(l) /\ InPart) =>
                /\ Len(current_parts') = Len(current_parts)
                /\ Front(current_parts') = Front(current_parts)
                /\ Last(current_parts').part_label
                       = Last(current_parts).part_label
                /\ Last(current_parts').text = Last(current_parts).text \o l
                /\ InPart'
                /\ questions' = questions
                /\ current_question_number' = current_question_number
                /\ current_question_text' = current_question_text]_vars

\* part (a), then part (b), then a plain line: the plain line is in (b) only
C17_Witness ==
    /\ pc = "pages"
    /\ Len(current_parts) = 2
    /\ current_parts[1] = [part_label |-> "a", text |-> Tail(L_a),
                           marks |-> None]
    /\ current_parts[2].part_label = "b"
    /\ current_parts[2].text = Tail(L_bmark) \o L_plain
    /\ current_parts[2].marks = 1

----------------------------------------------------------------------------
(* C18 *)

IsWarning(d) ==
    d.msg \in {"Warning: Misplaced continuation marker",
               "Warning: Misidentified continued question"}

\* C18: a ContinuedMain line whose number is not that of the open question,
\* or that arrives while no question is open, raises no error: the open
\* question is flushed, a question with the line's number is opened whose
\* text is the text after the marker and which has no parts, and a warning
\* is logged.
C18_MismatchedContinuedMain ==
    [][\A l \in Lines :
         (Handled(l) /\ IsContinuedMainLine(l)
          /\ current_question_number # l[1].d) =>
            /\ error' = "none"
            /\ current_question_number' = l[1].d
            /\ current_question_text' = SubSeq(l, 3, Len(l))
            /\ current_parts' = <<>>
            /\ InMain'
            /\ (~Idle /\ HasWord(current_question_text))
                   => /\ Len(questions') = Len(questions) + 1
                      /\ Last(questions').question_number
                             = current_question_number
            /\ \E k \in (Len(debug_output) + 1)..Len(debug_output') :
                   IsWarning(debug_output'[k])]_vars

----------------------------------------------------------------------------
(* C19 *)

\* the diagnostics the step has added
NewLog == {debug_output'[k].msg : k \in (Len(debug_output) + 1)..Len(debug_output')}

ContinuedMainArm ==
    {"Continued main question", "Warning: Misidentified continued question",
     "Ignoring explicit continuation marker",
     "Warning: Misplaced continuation marker"}

PartArm == {"Detected sub-question", "Detected continued sub-question"}

\* C19: the patterns are tried in the order ContinuedMain, MainStart,
\* PartStart, PlainText.  A line "N. (continued) ..." is handled as a
\* continuation and never adds a part; any other line "N. content" is
\* handled as a MainStart, whatever its content begins with: it opens
\* question N with the content as text and without parts.
C19_ClassificationPriority ==
    [][\A l \in MarkLines :
         /\ (Handled(l) /\ IsContinuedMainLine(l)) =>
                /\ NewLog \cap ContinuedMainArm # {}
                /\ NewLog \cap PartArm = {}
                /\ Len(current_parts') <= Len(current_parts)
         /\ (Handled(l) /\ l[1].k = "numdot" /\ ~IsContinuedMainLine(l)) =>
                /\ "Detected main question" \in NewLog
                /\ NewLog \cap PartArm = {}
                /\ current_question_number' = l[1].d
                /\ current_question_text' = Tail(l)
                /\ current_parts' = <<>>]_vars

----------------------------------------------------------------------------
(* C20 *)

IsPrefix(s, t) == Len(s) <= Len(t) /\ SubSeq(t, 1, Len(s)) = s

\* the open question holds a word of its own, in its text or in a part
HasContent ==
    \/ HasWord(current_question_text)
    \/ \E j \in 1..Len(current_parts) : HasWord(current_parts[j].text)

\* the step leaves the open question open and only adds to it
KeptOpen ==
    /\ current_question_number' = current_question_number
    /\ IsPrefix(current_question_text, current_question_text')
    /\ Len(current_parts') >= Len(current_parts)
    /\ \A j \in 1..Len(current_parts) :
           /\ current_parts'[j].part_label = current_parts[j].part_label
           /\ IsPrefix(current_parts[j].text, current_parts'[j].text)

EmptyAccumulators ==
    /\ current_question_number = NoQuestion
    /\ current_question_text = <<>>
    /\ current_marks = None
    /\ current_parts = <<>>
    /\ current_question_diagrams = <<>>

\* the calls of _finalize_current_question made from line 401
TerminalFlushes == {i \in 1..Len(hist) : hist[i].ev = "flush"}

\* C20: terminal flush.  Before the merge no step removes a finalized record
\* and no step appends more than one; an appended record is the open
\* question, which the step closes (what stays in the accumulators comes
\* from the consumed line alone); an open question that holds a word is
\* either kept open or appended; and once the lines of the document are
\* used up the terminal flush has run exactly once and the assembler is Idle
\* with no open number, text, marks, parts or diagrams.
C20_TerminalFlush ==
    [][/\ ~Saved =>
              /\ Len(questions') \in {Len(questions), Len(questions) + 1}
              /\ \A i \in 1..Len(questions) :
                     questions'[i].question_number
                         = questions[i].question_number
       /\ Flushed =>
              /\ ~Idle
              /\ Last(questions').question_number = current_question_number
              /\ NonEmptyRecord(Last(questions'))
              /\ current_question_diagrams' = <<>>
              /\ Len(current_parts') <= 1
              /\ \/ current_question_text' = <<>>
                 \/ /\ Last(hist').ev = "block"
                    /\ current_question_text' = Tail(Last(hist').lines[1])
       /\ (~Idle /\ HasContent /\ ~Flushed) => KeptOpen
       /\ pc' # "pages" =>
              /\ EmptyAccumulators'
              /\ Cardinality(TerminalFlushes') = 1
      ]_vars

----------------------------------------------------------------------------
(* C21 *)

\* C21: marks backfill.  A PlainText line that arrives while a question is
\* open is appended to the text of the newest part when there is one and to
\* the main text otherwise; the marks of that same record become the hint of
\* the line only when they were unknown, and stay as they were when they
\* were known; the other parts, and the main text and marks when a part is
\* open, are unchanged.
C21_MarksBackfill ==
    [][\A l \in MarkLines :
         (Handled(l) /\ IsPlainTextLine(l) /\ ~Idle) =>
             LET n == Len(current_parts)
             IN  /\ questions' = questions
                 /\ current_question_number' = current_question_number
                 /\ InPart =>
                        /\ Len(current_parts') = n
                        /\ \A j \in 1..(n - 1) :
                               current_parts'[j] = current_parts[j]
                        /\ current_parts'[n].text = current_parts[n].text \o l
                        /\ current_parts'[n].marks =
                               IF current_parts[n].marks = None
                               THEN LineHint(l) ELSE current_parts[n].marks
                        /\ current_question_text' = current_question_text
                        /\ current_marks' = current_marks
                 /\ InMain =>
                        /\ current_parts' = <<>>
                        /\ current_question_text' = current_question_text \o l
                        /\ current_marks' =
                               IF current_marks = None
                               THEN LineHint(l) ELSE current_marks]_vars

\* the main question took its marks from a later plain line, and the part
\* opened with marks 1 kept them when the same plain line followed it
C21_Witness ==
    /\ pc = "pages"
    /\ current_question_text = Tail(L_7find) \o L_plain
    /\ current_marks = 4
    /\ current_parts = <<[part_label |-> "b",
                          text |-> Tail(L_bmark) \o L_plain,
                          marks |-> 1]>>

----------------------------------------------------------------------------
(* C22 *)

\* the step that loads a page
PageLoaded == Len(hist') = Len(hist) + 1 /\ Last(hist').ev = "page"

\* the diagram set of a part: _add_part gives a part no such field
PartDiagrams(part) ==
    IF "diagrams" \in DOMAIN part THEN part.diagrams ELSE <<>>

\* C22: loading a page attaches its diagrams, before any line of the page
\* is consumed, to the record that is open: to the open (newest) part when
\* a part is open and to the open main question otherwise, and to nothing
\* else; a question that opens on a later line starts with no diagram.
C22_DiagramsToOpenRecord ==
    [][/\ PageLoaded =>
              LET d == Last(hist').diagrams
              IN  /\ InMain =>
                         /\ current_question_diagrams' =
                                current_question_diagrams \o d
                         /\ current_parts' = current_parts
                  /\ InPart =>
                         /\ PartDiagrams(Last(current_parts')) =
                                PartDiagrams(Last(current_parts)) \o d
                         /\ current_question_diagrams' =
                                current_question_diagrams
                  /\ questions' = questions
       /\ (\E l \in Lines : Handled(l))
              /\ current_question_number' # current_question_number =>
              current_question_diagrams' = <<>>
      ]_vars

----------------------------------------------------------------------------
(* C23 *)

\* C23: no diagram is attached to two targets of the written output: the
\* diagram lists of two different written questions have no blob in common,
\* and no list names a blob twice (a part has no diagram list).
C23_BlobAttachedOnce ==
    /\ \A i, j \in 1..Len(valid_questions) :
           i # j => Range(valid_questions[i].diagrams)
                        \cap Range(valid_questions[j].diagrams) = {}
    /\ \A i \in 1..Len(valid_questions) :
           Cardinality(Range(valid_questions[i].diagrams))
               = Len(valid_questions[i].diagrams)

\* two written questions, each with a diagram of its own
C23_Witness ==
    /\ pc = "done"
    /\ \E i, j \in 1..Len(valid_questions) :
           /\ i # j
           /\ valid_questions[i].diagrams # <<>>
           /\ valid_questions[j].diagrams # <<>>

----------------------------------------------------------------------------
(* C24 *)

\* the literal word "diagram" or "figure" occurs in the text
NamesDiagram(text) ==
    \E i \in 1..Len(text) : text[i].s \in {"diagram", "figure"}

\* the text of a record: its own text and the text of its parts
RecordNamesDiagram(q) ==
    \/ NamesDiagram(q.text)
    \/ \E i \in 1..Len(q.parts) : NamesDiagram(q.parts[i].text)

\* C24: in every written record has_diagram is true exactly when a diagram
\* blob is attached to the record or its text names a diagram or figure; a
\* record with a non-empty diagram list has has_diagram = TRUE.
C24_HasDiagram ==
    \A i \in 1..Len(valid_questions) :
        valid_questions[i].has_diagram
            <=> (valid_questions[i].diagrams # <<>>
                 \/ RecordNamesDiagram(valid_questions[i]))

----------------------------------------------------------------------------
(* C25 *)

\* C25: a flushed record is read-only while lines are consumed.  Every step
\* other than the merge of _save_questions leaves each record of the
\* finalized list exactly as it was (text, marks, parts, diagrams) and at
\* its position; such a step can only append a record.
C25_FlushedReadOnly ==
    [][~Saved =>
           /\ Len(questions') >= Len(questions)
           /\ \A i \in 1..Len(questions) : questions'[i] = questions[i]]_vars

\* question 7 was flushed, and a part line and a plain line were consumed
\* for the question opened after it
C25_Witness ==
    /\ pc = "pages"
    /\ Len(questions) = 1
    /\ questions[1].question_number = <<7>>
    /\ questions[1].parts = <<>>
    /\ current_question_number # NoQuestion
    /\ Len(current_parts) = 1
    /\ Len(current_parts[1].text) > Len(Tail(L_a))

----------------------------------------------------------------------------
(* C26 *)

\* the records of file f in the list qs
RecordsOf(f, qs) == SelectSeq(qs, LAMBDA q : q.text[1] = f.id)

\* the file is neither a marking-instruction file nor of unknown subject
IsPaper(f) == f.prefix # "mi_" /\ determine_subject(f) # ""

\* C26: a file that cannot be processed does not stop the run.  No exception
\* leaves the loop over the files, so the run always goes on to the next
\* file; when the run has ended, a file that failed has contributed no
\* record and every other paper of the directory has contributed all of its
\* records to the written list of its subject.
C26_FailureIsolated ==
    /\ pc # "dir_aborted"
    /\ pc = "dir_saved" =>
           \A i \in 1..Len(dir_files) :
               LET f == dir_files[i]
                   mine == RecordsOf(f, dir_saved[determine_subject(f)])
               IN  IsPaper(f) =>
                       Len(mine) = IF f.fault = "none" THEN Len(f.numbers)
                                   ELSE 0

----------------------------------------------------------------------------
(* C27 *)

\* what the run writes for file f when f is the only file of the directory
Alone(f) == fix_question_numbering(extract_from_pdf(f).questions)

\* C27: documents are independent.  When the run has ended, the records
\* written for a paper (their numbers and their order) are those written
\* when the paper is processed alone, whatever else the directory holds.
C27_DocumentsIndependent ==
    pc = "dir_saved" =>
        \A i \in 1..Len(dir_files) :
            LET f == dir_files[i]
            IN  IsPaper(f) =>
                    RecordsOf(f, dir_saved[determine_subject(f)]) = Alone(f)

----------------------------------------------------------------------------
(* C28 *)

\* finalization has removed the number at the end of the text
TrailingNumberRemoved(before, after) ==
    /\ before # <<>>
    /\ Last(before).k = "num"
    /\ Len(after) < Len(before)

TrailingNumber(text) == ParseInt(Last(text).d)

\* C28: at a flush a trailing number leaves the text of the question or of
\* a part only when it is the value of the marks field of that record.
C28_StripAfterCapture ==
    [][Flushed =>
           LET r == Last(questions')
           IN  /\ TrailingNumberRemoved(current_question_text, r.text) =>
                      r.marks = TrailingNumber(current_question_text)
               /\ \A j \in 1..Len(current_parts) :
                      LET part == final_part(current_parts[j])
                      IN  TrailingNumberRemoved(current_parts[j].text,
                                                part.text) =>
                              part.marks
                                  = TrailingNumber(current_parts[j].text)
      ]_vars

----------------------------------------------------------------------------
(* C29 *)

\* the words of s occur in t, in order and next to each other
IsInfix(s, t) ==
    \E k \in 0..(Len(t) - Len(s)) : SubSeq(t, k + 1, k + Len(s)) = s

\* C29: _handle_multi_page_questions merges and never loses a question.
\* When it has returned: for every record of the input whose successor
\* contains "continued", the returned list holds that record with the text
\* of the successor appended; and every record of the input is in the
\* returned list or has its text inside the text of a returned record.
C29_MergeNeverLoses ==
    pc = "mp_returned" =>
        /\ \A i \in 1..(Len(mp_input) - 1) :
               is_continuation(mp_input[i + 1]) =>
                   \E k \in 1..Len(mp_merged) :
                       /\ mp_merged[k].question_number = i
                       /\ mp_merged[k].text
                              = mp_input[i].text \o mp_input[i + 1].text
        /\ \A i \in 1..Len(mp_input) :
               \E k \in 1..Len(mp_merged) :
                   \/ mp_merged[k].question_number = i
                   \/ IsInfix(mp_input[i].text, mp_merged[k].text)

----------------------------------------------------------------------------
(* C30 *)

\* the orphan arm has looked at a previously finalized question
OrphanArmOnFinalized ==
    Logged("Heuristically attached orphaned part")
        \cup Logged("Could not attach orphaned part to last question")

\* C30: while lines are consumed the assembler is Idle only before the
\* first question opens.  A step that starts with a question open and
\* leaves extract_questions among its pages ends with a question open; so
\* whenever no question is open before the terminal flush, the finalized
\* list is empty, and the branches of the orphan arm that look at the last
\* finalized question (attach, could not attach, the TypeError of a label
\* that is not a letter) are never taken.
C30_IdleOnlyBeforeFirst ==
    [][/\ (~Idle /\ pc' = "pages") => ~Idle'
       /\ (Idle' /\ pc' \in {"pages", "crashed"}) => questions' = <<>>
       /\ OrphanArmOnFinalized' = {}
       /\ error' \in {"none", "UnboundLocalError"}]_vars

\* two questions were flushed and a part line was taken as a part of the
\* question that is open
C30_Witness ==
    /\ pc = "pages"
    /\ Len(questions) = 2
    /\ InPart
    /\ Logged("Warning: Orphaned sub-question found") = {}

====
